---- MODULE Spec2Model ----
(***************************************************************************)
(* A model of xl2times' block parser / tabular writer (utils/dd_to_csv.py) *)
(* and of its configuration compiler (xl2times/datatypes.py, class Config).*)
(*                                                                         *)
(* Text is modelled by value: a Python str is a sequence of one-character  *)
(* strings, so that split, strip, lower, startswith ... are computed the   *)
(* way Python computes them.  A Python dict is a sequence of [k, v]        *)
(* records in insertion order; a Python list is a sequence; a Python set   *)
(* is a set.  Cursors keep Python's 0-based values.                        *)
(***************************************************************************)
EXTENDS Integers, Sequences, FiniteSets, TLC

(***************************************************************************)
(* Python str operations                                                   *)
(***************************************************************************)
SP == " "
QT == "'"

\* str.startswith(p)
StartsWith(s, p) == Len(s) >= Len(p) /\ SubSeq(s, 1, Len(p)) = p

\* str.endswith(p)
EndsWith(s, p) == Len(s) >= Len(p) /\ SubSeq(s, Len(s) - Len(p) + 1, Len(s)) = p

\* c in s, for a one-character c
HasChar(s, c) == \E i \in 1..Len(s) : s[i] = c

\* str.lstrip(c) / str.rstrip(c) / str.strip(c): every leading/trailing c goes
RECURSIVE LStripChar(_, _)
LStripChar(s, c) == IF s # <<>> /\ Head(s) = c THEN LStripChar(Tail(s), c) ELSE s

RECURSIVE RStripChar(_, _)
RStripChar(s, c) ==
    IF s # <<>> /\ s[Len(s)] = c THEN RStripChar(SubSeq(s, 1, Len(s) - 1), c) ELSE s

StripChar(s, c) == LStripChar(RStripChar(s, c), c)

\* str.rstrip() / str.strip(): whitespace (the model's only whitespace is " ")
RStrip(s) == RStripChar(s, SP)
Strip(s) == StripChar(s, SP)

\* str.isspace(): non-empty and all whitespace
IsSpace(s) == s # <<>> /\ \A i \in 1..Len(s) : s[i] = SP

\* str.split(sep) for a non-empty separator string: left to right, never empty
RECURSIVE SplitAcc(_, _, _)
SplitAcc(s, sep, cur) ==
    IF s = <<>> THEN <<cur>>
    ELSE IF StartsWith(s, sep)
         THEN <<cur>> \o SplitAcc(SubSeq(s, Len(sep) + 1, Len(s)), sep, <<>>)
         ELSE SplitAcc(Tail(s), sep, Append(cur, Head(s)))

Split(s, sep) == SplitAcc(s, sep, <<>>)

\* str.replace(pat, ""): every non-overlapping occurrence, left to right
RECURSIVE RemoveAll(_, _)
RemoveAll(s, pat) ==
    IF s = <<>> THEN <<>>
    ELSE IF StartsWith(s, pat) THEN RemoveAll(SubSeq(s, Len(pat) + 1, Len(s)), pat)
         ELSE <<Head(s)>> \o RemoveAll(Tail(s), pat)

\* "".join(parts)
RECURSIVE Join(_)
Join(parts) == IF parts = <<>> THEN <<>> ELSE Head(parts) \o Join(Tail(parts))

\* [f(x) for x in xs], xs a sequence
MapSeq(F(_), xs) == [i \in 1..Len(xs) |-> F(xs[i])]

Range(xs) == {xs[i] : i \in 1..Len(xs)}

\* [x for x in xs if P(x)]
RECURSIVE FilterSeq(_, _)
FilterSeq(P(_), xs) ==
    IF xs = <<>> THEN <<>>
    ELSE (IF P(Head(xs)) THEN <<Head(xs)>> ELSE <<>>) \o FilterSeq(P, Tail(xs))

(***************************************************************************)
(* Python dict operations (insertion ordered)                              *)
(***************************************************************************)
DictHas(d, k) == \E i \in 1..Len(d) : d[i].k = k

DictPos(d, k) == CHOOSE i \in 1..Len(d) : d[i].k = k

DictGet(d, k) == d[DictPos(d, k)].v

\* d[k] = v: a known key keeps its position, a new key goes last
DictPut(d, k, v) ==
    IF DictHas(d, k) THEN [d EXCEPT ![DictPos(d, k)].v = v]
    ELSE Append(d, [k |-> k, v |-> v])

DictKeys(d) == [i \in 1..Len(d) |-> d[i].k]

DictKeySet(d) == {d[i].k : i \in 1..Len(d)}

(***************************************************************************)
(* State                                                                   *)
(***************************************************************************)
\* utils/dd_to_csv.py: convert_dd_to_tabular and the functions it calls
VARIABLES
    files,              \* the text of each *.dd file of dd_files, in rglob order
    fileIdx,            \* position of `for path in dd_files`
    pc,                 \* where the driver / parser / writer stands
    data,               \* parser: the right-stripped lines
    index,              \* parser: the cursor (0-based)
    param_name,         \* parser: name of the open PARAMETER block
    param_data,         \* parser: records of the open PARAMETER block
    name,               \* parser: name of the open SET block
    set_data,           \* parser: tuples of the open SET block
    param_value_dict,   \* parser: result, name -> list of records
    set_data_dict,      \* parser: result, name -> set of tuples
    parsed,             \* what each parsed source returned, in processing order
    all_parameters,     \* driver: merged parameters, name -> list of records
    all_sets,           \* driver: merged sets, name -> list of tuples
    headers_data,       \* driver: table name -> header
    wIdx,               \* writer: position of `for param_name, param_data in ...`
    emitted,            \* writer: the tables written so far (to_csv calls)
    error               \* the exception that ended the run, or NoError

ddVars == <<files, fileIdx, pc, data, index, param_name, param_data, name, set_data,
            param_value_dict, set_data_dict, parsed, all_parameters, all_sets,
            headers_data, wIdx, emitted, error>>

parserVars == <<data, index, param_name, param_data, name, set_data,
                param_value_dict, set_data_dict>>

NoError == [type |-> "none", what |-> "", args |-> <<>>]

Raised(type, what, args) == [type |-> type, what |-> what, args |-> args]

(***************************************************************************)
(* State of the configuration compiler: xl2times/datatypes.py, Config      *)
(***************************************************************************)
VARIABLES
    mapping_file,       \* the lines of the mapping file
    mIdx,               \* how many of them readline() has returned
    mappings,           \* _read_mappings: the rules compiled so far
    dropped,            \* _read_mappings: the lines dropped so far
    warning,            \* the count the dropped-mappings warning printed, -1 if none
    table_info,         \* the items of the times-info file
    dd_table_order,     \* Config.dd_table_order: what the iterator has yet to yield
    all_attributes,     \* Config.all_attributes
    param_mappings,     \* the rules made from table_info
    times_xl_maps,      \* Config.times_xl_maps
    veda_tags_info,     \* the entries of the veda-tags file
    tIdx,               \* position of `for tag_info in veda_tags_info`
    heap,               \* the dict and set objects the three tag tables refer to
    valid_column_names, \* tag -> reference to its alias table
    row_comment_chars,  \* tag -> reference to its comment-marker table
    known_cols,         \* tag -> reference to its known-column set
    discard_if_empty,   \* Config.discard_if_empty
    observed            \* what each consumer has read from the built Config

cfgVars == <<mapping_file, mIdx, mappings, dropped, warning, table_info, dd_table_order,
             all_attributes, param_mappings, times_xl_maps, veda_tags_info, tIdx, heap,
             valid_column_names, row_comment_chars, known_cols, discard_if_empty,
             observed>>

tagVars == <<veda_tags_info, tIdx, heap, valid_column_names, row_comment_chars,
             known_cols, discard_if_empty>>

(***************************************************************************)
(* Block parser: parse_parameter_values_from_file                          *)
(***************************************************************************)
kPARAMETER == <<"P", "A", "R", "A", "M", "E", "T", "E", "R">>
kSET == <<"S", "E", "T">>
kSLASH == <<"/">>
kDECOR == <<" ", "'", " ", "'", "/">>
kDOT == <<".">>

\* data[index].split(" ")
ParamWords(line) == Split(line, <<SP>>)

\* (a slip: the quotes are kept)
ParamKeyQuoted(word) == Split(word, kDOT)

\* [a if " " in a else a.strip("'") for a in words[0].split(".")]
ParamKey(word) ==
    MapSeq(LAMBDA a : IF HasChar(a, SP) THEN a ELSE StripChar(a, QT), Split(word, kDOT))

\* len(words) is 1 or 2; anything else raises
ParamRowOk(line) == Len(ParamWords(line)) \in {1, 2}

\* [*attributes, value]
ParamRecord(line) ==
    LET words == ParamWords(line)
        attributes == IF Len(words) = 1 THEN <<>> ELSE ParamKey(words[1])
    IN  attributes \o <<words[Len(words)]>>

\* the loop over data[index].split("'") that fills parts
RECURSIVE SetParts(_, _)
SetParts(ws, parts) ==
    IF ws = <<>> THEN parts
    ELSE LET word == Head(ws)
             n == Len(parts)
         IN  IF word = <<>> THEN SetParts(Tail(ws), parts)
             ELSE IF IsSpace(word) THEN SetParts(Tail(ws), Append(parts, <<>>))
             ELSE IF EndsWith(word, <<SP>>)
                  THEN SetParts(Tail(ws),
                                Append([parts EXCEPT ![n] = Append(@, Strip(word))], <<>>))
                  ELSE SetParts(Tail(ws), [parts EXCEPT ![n] = Append(@, word)])

\* words = ["".join(part) for part in parts]
SetWords(line) == MapSeq(Join, SetParts(Split(line, <<QT>>), << <<>> >>))

SetRowOk(line) == Len(SetWords(line)) \in {1, 2}

\* (a slip: the description is left out)
SetTupleKeysOnly(line) == Split(SetWords(line)[1], kDOT)

\* tuple([*attributes]) or tuple([*attributes, text])
SetTuple(line) ==
    LET words == SetWords(line)
        attributes == Split(words[1], kDOT)
    IN  IF Len(words) = 1 THEN attributes ELSE attributes \o <<words[2]>>

\* (a slip: an empty line does not end the rows)
EndsBlockAtSlash(line) == StartsWith(line, kSLASH)

\* a row loop ends at a line that starts with "/" or is empty
EndsBlock(line) == StartsWith(line, kSLASH) \/ line = <<>>

Line(i) == data[i + 1]

\* an exception ends the run where it is raised
Fail(e) ==
    /\ pc' = pc
    /\ error' = e

\* `if data[index].startswith("SET")` and the `index += 1` that ends the iteration,
\* with the cursor at i
SetCheck(i) ==
    IF StartsWith(Line(i), kSET)
    THEN LET parts == Split(Line(i), <<SP>>)
         IN  IF Len(parts) # 2
             THEN /\ Fail(Raised("ValueError", "unpack", <<Line(i)>>))
                  /\ UNCHANGED <<index, name>>
             ELSE /\ name' = parts[2]
                  /\ index' = i + 1
                  /\ pc' = "s_skip"
                  /\ UNCHANGED error
    ELSE /\ index' = i + 1
         /\ pc' = "scan"
         /\ UNCHANGED <<name, error>>

\* one iteration of `while index < len(data)` up to the block it opens
Scan ==
    /\ pc = "scan"
    /\ error = NoError
    /\ IF index >= Len(data)
       THEN /\ pc' = "merge"
            /\ UNCHANGED <<index, name, error>>
       ELSE IF StartsWith(Line(index), kPARAMETER)
            THEN /\ index' = index + 1
                 /\ pc' = "p_skip"
                 /\ UNCHANGED <<name, error>>
            ELSE SetCheck(index)
    /\ UNCHANGED <<files, fileIdx, data, param_name, param_data, set_data,
                   param_value_dict, set_data_dict, parsed, all_parameters, all_sets,
                   headers_data, wIdx, emitted>>
    /\ UNCHANGED cfgVars

\* the blank lines after PARAMETER, then the name line
ParamSkip ==
    /\ pc = "p_skip"
    /\ error = NoError
    /\ IF index >= Len(data)
       THEN /\ Fail(Raised("IndexError", "list index out of range", <<>>))
            /\ UNCHANGED <<index, param_name, param_data>>
       ELSE IF Strip(Line(index)) = <<>>
            THEN /\ index' = index + 1
                 /\ UNCHANGED <<pc, error, param_name, param_data>>
            ELSE /\ param_name' = RemoveAll(Line(index), kDECOR)
                 /\ index' = index + 1
                 /\ param_data' = <<>>
                 /\ pc' = "p_rows"
                 /\ UNCHANGED error
    /\ UNCHANGED <<files, fileIdx, data, name, set_data, param_value_dict, set_data_dict,
                   parsed, all_parameters, all_sets, headers_data, wIdx, emitted>>
    /\ UNCHANGED cfgVars

\* one row of a PARAMETER block, or the line that closes it
ParamRow ==
    /\ pc = "p_rows"
    /\ error = NoError
    /\ IF index >= Len(data)
       THEN /\ Fail(Raised("IndexError", "list index out of range", <<>>))
            /\ UNCHANGED <<index, name, param_data, param_value_dict>>
       ELSE IF ~EndsBlock(Line(index))
            THEN IF ParamRowOk(Line(index))
                 THEN /\ param_data' = Append(param_data, ParamRecord(Line(index)))
                      /\ index' = index + 1
                      /\ UNCHANGED <<pc, error, name, param_value_dict>>
                 ELSE /\ Fail(Raised("ValueError",
                                     "Unexpected number of spaces in parameter value setting",
                                     <<Line(index)>>))
                      /\ UNCHANGED <<index, name, param_data, param_value_dict>>
            ELSE /\ param_value_dict' = DictPut(param_value_dict, param_name, param_data)
                 /\ SetCheck(index)
                 /\ UNCHANGED param_data
    /\ UNCHANGED <<files, fileIdx, data, param_name, set_data, set_data_dict, parsed,
                   all_parameters, all_sets, headers_data, wIdx, emitted>>
    /\ UNCHANGED cfgVars

\* the blank lines after SET, then the "/" that opens the rows
SetSkip ==
    /\ pc = "s_skip"
    /\ error = NoError
    /\ IF index >= Len(data)
       THEN /\ Fail(Raised("IndexError", "list index out of range", <<>>))
            /\ UNCHANGED <<index, set_data>>
       ELSE IF Strip(Line(index)) = <<>>
            THEN /\ index' = index + 1
                 /\ UNCHANGED <<pc, error, set_data>>
            ELSE IF ~StartsWith(Line(index), kSLASH)
                 THEN /\ Fail(Raised("AssertionError", "", <<>>))
                      /\ UNCHANGED <<index, set_data>>
                 ELSE /\ index' = index + 1
                      /\ set_data' = {}
                      /\ pc' = "s_rows"
                      /\ UNCHANGED error
    /\ UNCHANGED <<files, fileIdx, data, param_name, param_data, name, param_value_dict,
                   set_data_dict, parsed, all_parameters, all_sets, headers_data, wIdx,
                   emitted>>
    /\ UNCHANGED cfgVars

\* (a slip: set_data_dict[name] = set_data)
SetDictReplace(d, k, s) == DictPut(d, k, s)

\* set_data_dict[name].update(set_data), or the first assignment
SetDictUpdate(d, k, s) ==
    IF DictHas(d, k) THEN DictPut(d, k, DictGet(d, k) \cup s) ELSE DictPut(d, k, s)

\* one row of a SET block, or the line that closes it
SetRow ==
    /\ pc = "s_rows"
    /\ error = NoError
    /\ IF index >= Len(data)
       THEN /\ Fail(Raised("IndexError", "list index out of range", <<>>))
            /\ UNCHANGED <<index, set_data, set_data_dict>>
       ELSE IF ~EndsBlock(Line(index))
            THEN IF SetRowOk(Line(index))
                 THEN /\ set_data' = set_data \cup {SetTuple(Line(index))}
                      /\ index' = index + 1
                      /\ UNCHANGED <<pc, error, set_data_dict>>
                 ELSE /\ Fail(Raised("ValueError",
                                     "Unexpected number of spaces in set value setting",
                                     <<Line(index)>>))
                      /\ UNCHANGED <<index, set_data, set_data_dict>>
            ELSE /\ set_data_dict' = SetDictUpdate(set_data_dict, name, set_data)
                 /\ index' = index + 1
                 /\ pc' = "scan"
                 /\ UNCHANGED <<error, set_data>>
    /\ UNCHANGED <<files, fileIdx, data, param_name, param_data, name, param_value_dict,
                   parsed, all_parameters, all_sets, headers_data, wIdx, emitted>>
    /\ UNCHANGED cfgVars

(***************************************************************************)
(* Inputs: the lines, files and headers the runs are checked on            *)
(***************************************************************************)
\* at most this many *.dd files in a run
MaxSources == 2

lnPARAMETER == kPARAMETER
lnP == <<"P">> \o kDECOR                                     \* P ' '/
lnQ == <<"Q">> \o kDECOR                                     \* Q ' '/
lnSETS == kSET \o <<" ", "S">>                               \* SET S
lnSETT == kSET \o <<" ", "T">>                               \* SET T
lnSLASH == kSLASH                                            \* /
lnBLANK == <<>>
rowAB10 == <<"'", "A", "'", ".", "'", "B", "'", " ", "1", "0">>   \* 'A'.'B' 10
row20 == <<"2", "0">>                                        \* 20
row20sp == <<"2", "0", " ">>                                 \* 20 and a trailing space
row3 == <<"a", " ", "b", " ", "c">>                          \* a b c
setXYd == <<"'", "X", "'", ".", "'", "Y", "'", " ", "'", "d", " ", "t", "'">>
                                                             \* 'X'.'Y' 'd t'
setXY == <<"X", ".", "Y">>                                   \* X.Y
setXYq == <<"'", "X", "'", ".", "'", "Y", "'">>              \* 'X'.'Y'

set3 == <<"'", "X", "'", " ", "'", "a", "'", " ", "'", "b", "'">>   \* 'X' 'a' 'b'

PBlock(nameLine, rows) == <<lnPARAMETER, nameLine>> \o rows \o <<lnSLASH>>

SBlock(rows) == <<lnSETS, lnSLASH>> \o rows \o <<lnSLASH>>

TBlock(rows) == <<lnSETT, lnSLASH>> \o rows \o <<lnSLASH>>

FilePool ==
    { PBlock(lnP, <<rowAB10>>),
      PBlock(lnP, <<rowAB10, rowAB10>>),
      PBlock(lnP, <<rowAB10, row20sp>>),
      PBlock(lnP, <<>>),
      PBlock(lnQ, <<row20>>) \o PBlock(lnP, <<rowAB10>>),
      PBlock(lnP, <<rowAB10>>) \o PBlock(lnP, <<row20>>),
      PBlock(lnP, <<row3>>),
      <<lnPARAMETER, lnBLANK, lnP, rowAB10, lnBLANK>> \o SBlock(<<setXYd>>),
      <<lnPARAMETER, lnP, row20>>,
      SBlock(<<setXYd>>),
      SBlock(<<setXY, setXYq>>),
      SBlock(<<setXYd, setXY>>),
      SBlock(<<>>),
      SBlock(<<setXYd>>) \o SBlock(<<setXY>>),
      <<lnSETS, lnBLANK, rowAB10>> }

colA == <<"A">>
colB == <<"B">>
colV == <<"V", "A", "L", "U", "E">>
colX == <<"X">>
colY == <<"Y">>
colD == <<"D">>

\* headers_by_attr, as generate_headers_by_attr returns it
HeadersByAttrPool ==
    { <<>>,
      << [k |-> <<"P">>, v |-> <<colV>>],
         [k |-> <<"Q">>, v |-> <<colV>>],
         [k |-> <<"S">>, v |-> <<colX, colY>>] >> }

\* the lines of times_mapping.txt
MappingTxtPool ==
    { <<>>,
      << <<"P", "[", "A", ",", "B", ",", "V", "]", " ", "=", " ", "x">>,     \* P[A,B,V] = x
         <<>>,
         <<"S", "[", "X", ",", "Y", ",", "D", "]", " ", "=", " ", "x">> >>,  \* S[X,Y,D] = x
      << <<"P">> >> }

(***************************************************************************)
(* Tabular writer: save_data_with_headers                                  *)
(***************************************************************************)
\* the first row whose length differs from the header's, 0 when there is none
FirstMismatch(rows, columns) ==
    LET bad == {i \in 1..Len(rows) : Len(rows[i]) # Len(columns)}
    IN  IF bad = {} THEN 0 ELSE CHOOSE i \in bad : \A j \in bad : i <= j

\* np.asarray(param_data)[:, 0 : len(columns)]
Project(rows, columns) ==
    [i \in 1..Len(rows) |->
        SubSeq(rows[i], 1, IF Len(rows[i]) < Len(columns) THEN Len(rows[i])
                           ELSE Len(columns))]

\* (a slip: a failing table takes the tables written before it with it)
SaveStepRollingBack(param_data_dict, next) ==
    IF wIdx >= Len(param_data_dict)
    THEN /\ pc' = next
         /\ wIdx' = 0
         /\ UNCHANGED <<emitted, error>>
    ELSE LET nm == param_data_dict[wIdx + 1].k
             rows == param_data_dict[wIdx + 1].v
         IN  IF /\ DictHas(headers_data, nm)
                /\ FirstMismatch(rows, DictGet(headers_data, nm)) = 0
                /\ rows # <<>>
             THEN /\ emitted' = Append(emitted,
                          [name |-> nm, columns |-> DictGet(headers_data, nm),
                           rows |-> Project(rows, DictGet(headers_data, nm))])
                  /\ wIdx' = wIdx + 1
                  /\ UNCHANGED <<pc, error>>
             ELSE /\ Fail(Raised("ValueError", "Could not write", <<nm>>))
                  /\ emitted' = <<>>
                  /\ UNCHANGED wIdx

\* one iteration of `for param_name, param_data in param_data_dict.items()`, or the
\* return that follows the last one
SaveStep(param_data_dict, next) ==
    IF wIdx >= Len(param_data_dict)
    THEN /\ pc' = next
         /\ wIdx' = 0
         /\ UNCHANGED <<emitted, error>>
    ELSE LET nm == param_data_dict[wIdx + 1].k
             rows == param_data_dict[wIdx + 1].v
         IN  IF ~DictHas(headers_data, nm)
             THEN /\ Fail(Raised("ValueError", "Could not find mapping", <<nm>>))
                  /\ UNCHANGED <<wIdx, emitted>>
             ELSE LET columns == DictGet(headers_data, nm)
                      m == FirstMismatch(rows, columns)
                  IN  IF m # 0
                      THEN /\ Fail(Raised("ValueError", "Mismatched number of columns",
                                          <<nm, Len(rows[m]), Len(columns)>>))
                           /\ UNCHANGED <<wIdx, emitted>>
                      ELSE IF rows = <<>>
                           \* np.asarray([]) is one-dimensional: [:, ...] cannot index it
                           THEN /\ Fail(Raised("IndexError", "too many indices for array",
                                               <<nm>>))
                                /\ UNCHANGED <<wIdx, emitted>>
                           ELSE /\ emitted' = Append(emitted,
                                        [name |-> nm, columns |-> columns,
                                         rows |-> Project(rows, columns)])
                                /\ wIdx' = wIdx + 1
                                /\ UNCHANGED <<pc, error>>

\* save_data_with_headers(all_parameters, headers_data, param_path)
WriteParams ==
    /\ pc = "write_params"
    /\ error = NoError
    /\ SaveStep(all_parameters, "write_sets")
    /\ UNCHANGED <<files, fileIdx, parserVars, parsed, all_parameters, all_sets,
                   headers_data>>
    /\ UNCHANGED cfgVars

\* save_data_with_headers(all_sets, headers_data, set_path)
WriteSets ==
    /\ pc = "write_sets"
    /\ error = NoError
    /\ SaveStep(all_sets, "done")
    /\ UNCHANGED <<files, fileIdx, parserVars, parsed, all_parameters, all_sets,
                   headers_data>>
    /\ UNCHANGED cfgVars

(***************************************************************************)
(* Driver: convert_dd_to_tabular                                           *)
(***************************************************************************)
\* data = [line.rstrip() for line in open(path)], and the parser's empty results
OpenFile ==
    /\ pc = "open"
    /\ error = NoError
    /\ IF fileIdx < Len(files)
       THEN /\ data' = MapSeq(RStrip, files[fileIdx + 1])
            /\ index' = 0
            /\ param_value_dict' = <<>>
            /\ set_data_dict' = <<>>
            /\ pc' = "scan"
       ELSE /\ pc' = "headers"
            /\ UNCHANGED <<data, index, param_value_dict, set_data_dict>>
    /\ UNCHANGED <<files, fileIdx, param_name, param_data, name, set_data, parsed,
                   all_parameters, all_sets, headers_data, wIdx, emitted, error>>
    /\ UNCHANGED cfgVars

\* (a slip: all[k] = v)
ExtendReplacing(all, k, v) == DictPut(all, k, v)

\* all[k].extend(v) on a defaultdict(list)
Extend(all, k, v) ==
    IF DictHas(all, k) THEN DictPut(all, k, DictGet(all, k) \o v) ELSE DictPut(all, k, v)

\* for k, v in local.items(): all[k].extend(v)
RECURSIVE ExtendAll(_, _)
ExtendAll(all, local) ==
    IF local = <<>> THEN all
    ELSE ExtendAll(Extend(all, Head(local).k, Head(local).v), Tail(local))

\* the orders in which iterating a Python set may yield its elements
Orderings(S) ==
    {o \in [1..Cardinality(S) -> S] : \A i, j \in 1..Cardinality(S) : o[i] = o[j] => i = j}

\* a dict of sets with each set replaced by one of its iteration orders
Listed(d) ==
    {l \in [1..Len(d) -> [k : DictKeySet(d),
                          v : UNION {Orderings(d[i].v) : i \in 1..Len(d)}]] :
        \A i \in 1..Len(d) : l[i].k = d[i].k /\ l[i].v \in Orderings(d[i].v)}

\* the two merge loops after a source is parsed
Merge ==
    /\ pc = "merge"
    /\ error = NoError
    /\ parsed' = Append(parsed, [params |-> param_value_dict, sets |-> set_data_dict])
    /\ all_parameters' = ExtendAll(all_parameters, param_value_dict)
    /\ \E l \in Listed(set_data_dict) : all_sets' = ExtendAll(all_sets, l)
    /\ fileIdx' = fileIdx + 1
    /\ pc' = "open"
    /\ UNCHANGED <<files, parserVars, headers_data, wIdx, emitted, error>>
    /\ UNCHANGED cfgVars

kLBRACKET == <<"[">>
kRBRACKET == <<"]">>
kCOMMA == <<",">>

\* for line in lines: headers_data[param_name] = [*attributes]
RECURSIVE HeaderLines(_, _)
HeaderLines(headers, lines) ==
    IF lines = <<>> THEN headers
    ELSE LET line == Strip(Head(lines))
         IN  IF line = <<>> THEN HeaderLines(headers, Tail(lines))
             ELSE HeaderLines(
                     DictPut(headers, Split(line, kLBRACKET)[1],
                             Split(Split(Split(line, kLBRACKET)[2], kRBRACKET)[1], kCOMMA)),
                     Tail(lines))

\* line.split("[")[1] needs a "[" in every non-blank line
HeaderLinesOk(lines) ==
    \A i \in 1..Len(lines) :
        Strip(lines[i]) # <<>> => Len(Split(Strip(lines[i]), kLBRACKET)) >= 2

\* lines 201-211: the headers the writer is given
Headers ==
    /\ pc = "headers"
    /\ error = NoError
    /\ \E headers_by_attr \in HeadersByAttrPool, lines \in MappingTxtPool :
          IF HeaderLinesOk(lines)
          THEN /\ headers_data' = HeaderLines(headers_by_attr, lines)
               /\ wIdx' = 0
               /\ pc' = "write_params"
               /\ UNCHANGED error
          ELSE /\ Fail(Raised("IndexError", "list index out of range", <<>>))
               /\ UNCHANGED <<headers_data, wIdx>>
    /\ UNCHANGED <<files, fileIdx, parserVars, parsed, all_parameters, all_sets, emitted>>
    /\ UNCHANGED cfgVars

(***************************************************************************)
(* Characters: Python's lower(), upper() and ordering of str               *)
(***************************************************************************)
Uppers == <<"A", "B", "C", "D", "E", "F", "G", "H", "I", "J", "K", "L", "M",
            "N", "O", "P", "Q", "R", "S", "T", "U", "V", "W", "X", "Y", "Z">>

Lowers == <<"a", "b", "c", "d", "e", "f", "g", "h", "i", "j", "k", "l", "m",
            "n", "o", "p", "q", "r", "s", "t", "u", "v", "w", "x", "y", "z">>

\* the characters of the model in code-point order
CodePoints == <<" ", "'", "(", ")", ",", "-", ".", "/", "0", "1", "2", ":", "=">>
              \o Uppers \o <<"[", "]", "_">> \o Lowers \o <<"~">>

Ord(c) == CHOOSE i \in 1..Len(CodePoints) : CodePoints[i] = c

LowerChar(c) ==
    IF \E i \in 1..Len(Uppers) : Uppers[i] = c
    THEN Lowers[CHOOSE i \in 1..Len(Uppers) : Uppers[i] = c] ELSE c

UpperChar(c) ==
    IF \E i \in 1..Len(Lowers) : Lowers[i] = c
    THEN Uppers[CHOOSE i \in 1..Len(Lowers) : Lowers[i] = c] ELSE c

\* str.lower() / str.upper()
Lower(s) == MapSeq(LowerChar, s)
Upper(s) == MapSeq(UpperChar, s)

\* s <= t for two str
RECURSIVE StrLeq(_, _)
StrLeq(s, t) ==
    IF s = <<>> THEN TRUE
    ELSE IF t = <<>> THEN FALSE
    ELSE IF Head(s) = Head(t) THEN StrLeq(Tail(s), Tail(t))
    ELSE Ord(Head(s)) < Ord(Head(t))

\* re.split of a pattern that is an alternative of single characters
RECURSIVE SplitAnyAcc(_, _, _)
SplitAnyAcc(s, seps, cur) ==
    IF s = <<>> THEN <<cur>>
    ELSE IF Head(s) \in seps THEN <<cur>> \o SplitAnyAcc(Tail(s), seps, <<>>)
         ELSE SplitAnyAcc(Tail(s), seps, Append(cur, Head(s)))

SplitAny(s, seps) == SplitAnyAcc(s, seps, <<>>)

NonEmpty(x) == x # <<>>

(***************************************************************************)
(* Inputs of the configuration compiler                                    *)
(***************************************************************************)
mapOAV ==      \* O[A,V] = ~t(c,d,a:F)
    <<"O", "[", "A", ",", "V", "]", " ", "=", " ", "~", "t", "(", "c", ",", "d", ",", "a", ":", "F", ")">>

mapOshort ==      \* O[A,V] = ~t(c,a:F)
    <<"O", "[", "A", ",", "V", "]", " ", "=", " ", "~", "t", "(", "c", ",", "a", ":", "F", ")">>

mapNtodoTag ==      \* N[A,V] = ~TODO(c)
    <<"N", "[", "A", ",", "V", "]", " ", "=", " ", "~", "T", "O", "D", "O", "(", "c", ")">>

mapNtodoCol ==      \* N[A] = ~t(TODO)
    <<"N", "[", "A", "]", " ", "=", " ", "~", "t", "(", "T", "O", "D", "O", ")">>

mapN ==      \* N[A] = ~t(c)
    <<"N", "[", "A", "]", " ", "=", " ", "~", "t", "(", "c", ")">>

mapOtodo ==      \* O[A] = ~TODO(TODO)
    <<"O", "[", "A", "]", " ", "=", " ", "~", "T", "O", "D", "O", "(", "T", "O", "D", "O", ")">>

mapOB ==      \* O[B] = ~t(B,c)
    <<"O", "[", "B", "]", " ", "=", " ", "~", "t", "(", "B", ",", "c", ")">>

mapBad ==      \* O[A]
    <<"O", "[", "A", "]">>

MapLinePool ==
    {mapOAV, mapOshort, mapNtodoTag, mapNtodoCol, mapN, mapOtodo, mapOB, mapBad, <<>>}

\* at most this many lines in the mapping file
MaxMapLines == 3

\* the mapping files of the runs of the whole of Config.__init__
MapFilePool ==
    { <<>>, <<mapOAV>>, <<mapOAV, mapN>>, <<mapN, mapOAV>>, <<mapOAV, mapOB>>,
      <<mapOtodo, mapN>>, <<mapOshort>> }

Item(nm, cat, indexes, mapping, derived) ==
    [name |-> nm, cat |-> cat, indexes |-> indexes, mapping |-> mapping,
     derived |-> derived]

TableInfoPool ==
    { Item(<<"O">>, "parameter", << <<"R">> >>, << <<"r">> >>, FALSE),
      Item(<<"U", "C">>, "parameter", <<>>, <<>>, FALSE),
      Item(<<"W">>, "parameter", << <<"R">>, <<"Y">> >>, << <<"r">> >>, FALSE),
      Item(<<"D">>, "parameter", << <<"R">> >>, << <<"r">> >>, TRUE),
      Item(<<"S">>, "set", << <<"R">> >>, <<>>, FALSE),
      Item(<<"A">>, "set", << <<"R">> >>, <<>>, FALSE),
      Item(<<"X">>, "other", <<>>, <<>>, FALSE) }

\* at most this many items in the times-info file
MaxInfo == 2

Field(nm, has_use_name, use_name, aliases, symbol) ==
    [name |-> nm, has_use_name |-> has_use_name, use_name |-> use_name,
     aliases |-> aliases, row_ignore_symbol |-> symbol]

TagInfo(tag_name, has_fields, valid_fields, has_base, base_tag) ==
    [tag_name |-> tag_name, has_fields |-> has_fields, valid_fields |-> valid_fields,
     has_base |-> has_base, base_tag |-> base_tag]

tagFI_T == <<"f", "i", "_", "t">>
tagUC_T == <<"u", "c", "_", "t">>
tagTFM == <<"t", "f", "m", "_", "i", "n", "s">>
tagNone == <<"n", "o">>

fldRegion == Field(<<"r">>, FALSE, <<>>, << <<"r">>, <<"r", "e", "g">> >>, << <<"*">> >>)
fldYear == Field(<<"y">>, TRUE, <<"y", "r">>, << <<"y", "e", "a", "r">> >>, << <<"*">> >>)

TagInfoPool ==
    { TagInfo(tagFI_T, TRUE, <<fldRegion>>, FALSE, <<>>),
      TagInfo(tagFI_T, TRUE, <<fldYear>>, FALSE, <<>>),
      TagInfo(tagUC_T, FALSE, <<>>, TRUE, tagFI_T),
      TagInfo(tagUC_T, TRUE, <<fldYear>>, FALSE, <<>>),
      TagInfo(tagTFM, TRUE, <<fldYear>>, TRUE, tagUC_T),
      TagInfo(tagTFM, FALSE, <<>>, TRUE, tagNone),
      TagInfo(tagNone, FALSE, <<>>, FALSE, <<>>) }

\* at most this many entries in the veda-tags file
MaxTags == 3

\* the consumers of the built Config, and how often each reads it
NumConsumers == 2

MaxReads == 2

Consumers == 1..NumConsumers

(***************************************************************************)
(* Mapping grammar: Config._read_mappings                                  *)
(***************************************************************************)
kEQ == <<" ", "=", " ">>
kTODOTAG == <<"~", "T", "O", "D", "O">>
kTODO == <<"T", "O", "D", "O">>
kTILDE == <<"~">>
kCOLON == <<":">>

HasColon(s) == HasChar(s, ":")

\* file.readline().rstrip(): "" at the end of the file
ReadLine == IF mIdx < Len(mapping_file) THEN RStrip(mapping_file[mIdx + 1]) ELSE <<>>

\* (times, xl) = line.split(" = ")
LineSides(line) == Split(line, kEQ)

\* list(filter(None, re.split("\[|\]", times)))
TimesParts(times) == FilterSeq(NonEmpty, SplitAny(times, {"[", "]"}))

\* list(filter(None, re.split("\(|\)", xl)))
XlParts(xl) == FilterSeq(NonEmpty, SplitAny(xl, {"(", ")"}))

\* the unpackings of lines 301-305 and 311 all get the number of values they name
LineUnpacks(line) ==
    /\ Len(LineSides(line)) = 2
    /\ Len(TimesParts(LineSides(line)[1])) = 2
    /\ Len(XlParts(LineSides(line)[2])) = 2
    /\ \A s \in {t \in Range(Split(XlParts(LineSides(line)[2])[2], kCOMMA)) : HasColon(t)} :
          Len(Split(s, kCOLON)) = 2

\* filter_rows[col_name.strip().lower()] = col_val.strip(), token by token
RECURSIVE FilterRows(_, _)
FilterRows(tokens, acc) ==
    IF tokens = <<>> THEN acc
    ELSE IF HasColon(Head(tokens))
         THEN FilterRows(Tail(tokens),
                         DictPut(acc, Lower(Strip(Split(Head(tokens), kCOLON)[1])),
                                 Strip(Split(Head(tokens), kCOLON)[2])))
         ELSE FilterRows(Tail(tokens), acc)

\* (a slip: the filter tokens stay in the list)
XlColsUnfiltered(tokens) == MapSeq(Lower, tokens)

\* xl_cols = [s.lower() for s in xl_cols if ":" not in s]
XlCols(tokens) == MapSeq(Lower, FilterSeq(LAMBDA s : ~HasColon(s), tokens))

\* not (xl_name != "~TODO" and not any(c.startswith("TODO") for c in xl_cols))
IsUnfinished(xl_name, xl_cols) ==
    xl_name = kTODOTAG \/ \E i \in 1..Len(xl_cols) : StartsWith(xl_cols[i], kTODO)

\* for index, value in enumerate(times_cols): col_map[value] = xl_cols[index]
RECURSIVE ColMap(_, _, _)
ColMap(times_cols, xl_cols, acc) ==
    IF times_cols = <<>> THEN acc
    ELSE ColMap(Tail(times_cols), Tail(xl_cols),
                DictPut(acc, Head(times_cols), Head(xl_cols)))

\* assert len(times_cols) <= len(xl_cols)
ColumnsFit(times_cols, xl_cols) == Len(times_cols) <= Len(xl_cols)

TimesXlMap(times_name, times_cols, xl_name, xl_cols, col_map, filter_rows) ==
    [times_name |-> times_name, times_cols |-> times_cols, xl_name |-> xl_name,
     xl_cols |-> xl_cols, col_map |-> col_map, filter_rows |-> filter_rows]

\* the rule a finished line compiles to
MappingEntry(line) ==
    LET times == LineSides(line)[1]
        xl == LineSides(line)[2]
        times_cols == Split(TimesParts(times)[2], kCOMMA)
        tokens == Split(XlParts(xl)[2], kCOMMA)
        xl_name == XlParts(xl)[1]
    IN  TimesXlMap(TimesParts(times)[1], times_cols,
                   IF StartsWith(xl_name, kTILDE) THEN Upper(xl_name) ELSE xl_name,
                   XlCols(tokens),
                   ColMap(times_cols, XlCols(tokens), <<>>),
                   FilterRows(tokens, <<>>))

\* one iteration of `while True`, or the break, the warning and the return
ReadMappingLine ==
    /\ pc = "read_mappings"
    /\ error = NoError
    /\ LET line == ReadLine
       IN  IF line = <<>>
           THEN /\ warning' = IF Len(dropped) > 0 THEN Len(dropped) ELSE -1
                /\ times_xl_maps' = mappings
                /\ pc' = "times_info"
                /\ UNCHANGED <<mIdx, mappings, dropped, error>>
           ELSE IF ~LineUnpacks(line)
           THEN /\ Fail(Raised("ValueError", "unpack", <<line>>))
                /\ mIdx' = mIdx + 1
                /\ UNCHANGED <<mappings, dropped, warning, times_xl_maps>>
           ELSE LET tokens == Split(XlParts(LineSides(line)[2])[2], kCOMMA)
                    times_cols == Split(TimesParts(LineSides(line)[1])[2], kCOMMA)
                IN  IF ~IsUnfinished(XlParts(LineSides(line)[2])[1], XlCols(tokens))
                    THEN IF ColumnsFit(times_cols, XlCols(tokens))
                         THEN /\ mappings' = Append(mappings, MappingEntry(line))
                              /\ mIdx' = mIdx + 1
                              /\ UNCHANGED <<pc, error, dropped, warning, times_xl_maps>>
                         ELSE /\ Fail(Raised("AssertionError", "", <<line>>))
                              /\ mIdx' = mIdx + 1
                              /\ UNCHANGED <<mappings, dropped, warning, times_xl_maps>>
                    ELSE /\ dropped' = Append(dropped, line)
                         /\ mIdx' = mIdx + 1
                         /\ UNCHANGED <<pc, error, mappings, warning, times_xl_maps>>
    /\ UNCHANGED <<mapping_file, table_info, dd_table_order, all_attributes,
                   param_mappings, tagVars, observed>>
    /\ UNCHANGED <<files, fileIdx, parserVars, parsed, all_parameters, all_sets,
                   headers_data, wIdx, emitted>>

(***************************************************************************)
(* Attribute metadata: Config._process_times_info                          *)
(***************************************************************************)
categories == <<"set", "subset", "subsubset", "md-set", "parameter">>

kVALUE == <<"V", "A", "L", "U", "E">>
kvalue == <<"v", "a", "l", "u", "e">>
kattribute == <<"a", "t", "t", "r", "i", "b", "u", "t", "e">>
kuc == <<"u", "c">>
kUC_T == <<"~", "U", "C", "_", "T">>
kFI_T == <<"~", "F", "I", "_", "T">>

\* sorted(xs) for a list of str
RECURSIVE Insert(_, _)
Insert(x, sorted) ==
    IF sorted = <<>> THEN <<x>>
    ELSE IF StrLeq(Head(sorted), x) THEN <<Head(sorted)>> \o Insert(x, Tail(sorted))
         ELSE <<x>> \o sorted

RECURSIVE Sorted(_)
Sorted(xs) == IF xs = <<>> THEN <<>> ELSE Insert(xs[Len(xs)], Sorted(SubSeq(xs, 1, Len(xs) - 1)))

\* cat_to_tables[c]: the names of the items of category c, in file order
CatTables(info, c) ==
    MapSeq(LAMBDA item : item.name, FilterSeq(LAMBDA item : item.cat = c, info))

\* what chain.from_iterable(sorted(cat_to_tables[c]) for c in categories) yields
DdTableOrder(info) ==
    Join([i \in 1..Len(categories) |-> Sorted(CatTables(info, categories[i]))])

\* dict(zip(ks, vs)): the longer list is cut to the shorter
RECURSIVE ZipDict(_, _, _)
ZipDict(ks, vs, acc) ==
    IF ks = <<>> \/ vs = <<>> THEN acc
    ELSE ZipDict(Tail(ks), Tail(vs), DictPut(acc, Head(ks), Head(vs)))

\* create_mapping(entity)
CreateMapping(entity) ==
    LET times_cols == entity.indexes \o <<kVALUE>>
        xl_cols == entity.mapping \o <<kvalue>>
    IN  TimesXlMap(entity.name, times_cols,
                   IF StartsWith(Lower(entity.name), kuc) THEN kUC_T ELSE kFI_T,
                   xl_cols, ZipDict(times_cols, xl_cols, <<>>),
                   <<[k |-> kattribute, v |-> entity.name]>>)

\* [create_mapping(x) for x in table_info if parameter and "type" not in x]
ParamMappings(info) ==
    MapSeq(CreateMapping,
           FilterSeq(LAMBDA x : x.cat = "parameter" /\ ~x.derived, info))

\* {item["name"].lower() for item in table_info if parameter}
Attributes(info) ==
    {Lower(info[i].name) : i \in {j \in 1..Len(info) : info[j].cat = "parameter"}}

ProcessTimesInfo ==
    /\ pc = "times_info"
    /\ error = NoError
    /\ dd_table_order' = DdTableOrder(table_info)
    /\ all_attributes' = Attributes(table_info)
    /\ param_mappings' = ParamMappings(table_info)
    /\ pc' = "veda_tags"
    /\ UNCHANGED <<mapping_file, mIdx, mappings, dropped, warning, table_info,
                   times_xl_maps, tagVars, observed, error>>
    /\ UNCHANGED <<files, fileIdx, parserVars, parsed, all_parameters, all_sets,
                   headers_data, wIdx, emitted>>

(***************************************************************************)
(* Tag schemas: Config._read_veda_tags_info                                *)
(***************************************************************************)
\* the values of the enum Tag
TagCatalog ==
    { <<"~", "A", "C", "T", "I", "V", "E", "P", "D", "E", "F">>,
      <<"~", "B", "O", "O", "K", "R", "E", "G", "I", "O", "N", "S", "_", "M", "A", "P">>,
      <<"~", "C", "O", "M", "A", "G", "G">>,
      <<"~", "C", "O", "M", "E", "M", "I">>,
      <<"~", "C", "U", "R", "R", "E", "N", "C", "I", "E", "S">>,
      <<"~", "D", "E", "F", "A", "U", "L", "T", "Y", "E", "A", "R">>,
      <<"~", "D", "E", "F", "U", "N", "I", "T", "S">>,
      <<"~", "E", "N", "D", "Y", "E", "A", "R">>,
      <<"~", "F", "I", "_", "C", "O", "M", "M">>,
      <<"~", "F", "I", "_", "P", "R", "O", "C", "E", "S", "S">>,
      <<"~", "F", "I", "_", "T">>,
      <<"~", "M", "I", "L", "E", "S", "T", "O", "N", "E", "Y", "E", "A", "R", "S">>,
      <<"~", "S", "T", "A", "R", "T", "Y", "E", "A", "R">>,
      <<"~", "T", "F", "M", "_", "A", "V", "A">>,
      <<"~", "T", "F", "M", "_", "C", "O", "M", "G", "R", "P">>,
      <<"~", "T", "F", "M", "_", "C", "S", "E", "T", "S">>,
      <<"~", "T", "F", "M", "_", "D", "I", "N", "S">>,
      <<"~", "T", "F", "M", "_", "D", "I", "N", "S", "-", "A", "T">>,
      <<"~", "T", "F", "M", "_", "D", "I", "N", "S", "-", "T", "S">>,
      <<"~", "T", "F", "M", "_", "D", "I", "N", "S", "-", "T", "S", "L">>,
      <<"~", "T", "F", "M", "_", "F", "I", "L", "L">>,
      <<"~", "T", "F", "M", "_", "F", "I", "L", "L", "-", "R">>,
      <<"~", "T", "F", "M", "_", "I", "N", "S">>,
      <<"~", "T", "F", "M", "_", "I", "N", "S", "-", "A", "T">>,
      <<"~", "T", "F", "M", "_", "I", "N", "S", "-", "T", "S">>,
      <<"~", "T", "F", "M", "_", "I", "N", "S", "-", "T", "S", "L">>,
      <<"~", "T", "F", "M", "_", "I", "N", "S", "-", "T", "X", "T">>,
      <<"~", "T", "F", "M", "_", "M", "I", "G">>,
      <<"~", "T", "F", "M", "_", "P", "S", "E", "T", "S">>,
      <<"~", "T", "F", "M", "_", "T", "O", "P", "D", "I", "N", "S">>,
      <<"~", "T", "F", "M", "_", "T", "O", "P", "I", "N", "S">>,
      <<"~", "T", "F", "M", "_", "U", "P", "D">>,
      <<"~", "T", "F", "M", "_", "U", "P", "D", "-", "A", "T">>,
      <<"~", "T", "F", "M", "_", "U", "P", "D", "-", "T", "S">>,
      <<"~", "T", "I", "M", "E", "P", "E", "R", "I", "O", "D", "S">>,
      <<"~", "T", "I", "M", "E", "S", "L", "I", "C", "E", "S">>,
      <<"~", "T", "R", "A", "D", "E", "L", "I", "N", "K", "S">>,
      <<"~", "T", "R", "A", "D", "E", "L", "I", "N", "K", "S", "_", "D", "I", "N", "S">>,
      <<"~", "U", "C", "_", "S", "E", "T", "S">>,
      <<"~", "U", "C", "_", "T">>,
      <<"~", "U", "N", "I", "T", "C", "O", "N", "V", "E", "R", "S", "I", "O", "N">> }

\* to_tag(s): Tag("~" + s.upper()), which raises for a value the enum lacks
ToTag(s) == kTILDE \o Upper(s)

IsTag(s) == ToTag(s) \in TagCatalog

\* the tables as one value: the objects, and the three dicts of references to them
TagState == [heap |-> heap, vcn |-> valid_column_names, rcc |-> row_comment_chars,
             kc |-> known_cols, die |-> discard_if_empty]

\* d[tag] = <a new object holding val>
BindNew(st, table, tag, val) ==
    [st EXCEPT !.heap = Append(@, val), ![table] = DictPut(@, tag, Len(st.heap) + 1)]

\* known_cols[tag_name].add(field_name), known_cols a defaultdict(set)
KnownAdd(st, tag, field_name) ==
    LET st1 == IF DictHas(st.kc, tag) THEN st ELSE BindNew(st, "kc", tag, {})
    IN  [st1 EXCEPT !.heap[DictGet(st1.kc, tag)] = @ \cup {field_name}]

\* the loop over valid_field_names
RECURSIVE AddAliases(_, _, _, _, _)
AddAliases(st, tag, names, field_name, symbol) ==
    IF names = <<>> THEN st
    ELSE AddAliases(
            [st EXCEPT !.heap[DictGet(st.vcn, tag)] = DictPut(@, Head(names), field_name),
                       !.heap[DictGet(st.rcc, tag)] = DictPut(@, field_name, symbol)],
            tag, Tail(names), field_name, symbol)

\* one valid_field of the loop over tag_info["valid_fields"]
AddField(st, tag, f) ==
    LET renamed == f.has_use_name /\ f.use_name # f.name
        names == IF renamed THEN Append(f.aliases, f.name) ELSE f.aliases
        field_name == IF renamed THEN f.use_name ELSE f.name
    IN  AddAliases(KnownAdd(st, tag, field_name), tag, names, field_name,
                   f.row_ignore_symbol)

RECURSIVE AddFields(_, _, _)
AddFields(st, tag, fields) ==
    IF fields = <<>> THEN st ELSE AddFields(AddField(st, tag, Head(fields)), tag, Tail(fields))

\* the `if "valid_fields" in tag_info` part of one entry
OwnFields(st, tag_info) ==
    LET tag == ToTag(tag_info.tag_name)
        st1 == [st EXCEPT !.die = Append(@, tag)]
        st2 == BindNew(BindNew(st1, "vcn", tag, <<>>), "rcc", tag, <<>>)
    IN  IF tag_info.has_fields THEN AddFields(st2, tag, tag_info.valid_fields) ELSE st

\* the `if "base_tag" in tag_info` part: the dependent's entries are bound to the
\* base's objects themselves
Inherit(st, tag_info) ==
    LET tag == ToTag(tag_info.tag_name)
        base == ToTag(tag_info.base_tag)
        st1 == IF DictHas(st.vcn, base)
               THEN [st EXCEPT !.vcn = DictPut(@, tag, DictGet(st.vcn, base)),
                               !.die = Append(@, tag)]
               ELSE st
        st2 == IF DictHas(st1.rcc, base)
               THEN [st1 EXCEPT !.rcc = DictPut(@, tag, DictGet(st1.rcc, base))] ELSE st1
    IN  IF DictHas(st2.kc, base)
        THEN [st2 EXCEPT !.kc = DictPut(@, tag, DictGet(st2.kc, base))] ELSE st2

\* one iteration of `for tag_info in veda_tags_info`, or the return; the tag names
\* are all converted (line 362) before the first iteration
ReadTagInfo ==
    /\ pc = "veda_tags"
    /\ error = NoError
    /\ IF \E i \in 1..Len(veda_tags_info) : ~IsTag(veda_tags_info[i].tag_name)
       THEN /\ Fail(Raised("ValueError", "is not a valid Tag", <<>>))
            /\ UNCHANGED <<tIdx, heap, valid_column_names, row_comment_chars, known_cols,
                           discard_if_empty>>
       ELSE IF tIdx >= Len(veda_tags_info)
       THEN /\ pc' = "merge"
            /\ UNCHANGED <<tIdx, heap, valid_column_names, row_comment_chars, known_cols,
                           discard_if_empty, error>>
       ELSE LET tag_info == veda_tags_info[tIdx + 1]
                st1 == OwnFields(TagState, tag_info)
            IN  IF tag_info.has_base /\ ~IsTag(tag_info.base_tag)
                THEN /\ Fail(Raised("ValueError", "is not a valid Tag", <<>>))
                     /\ heap' = st1.heap
                     /\ valid_column_names' = st1.vcn
                     /\ row_comment_chars' = st1.rcc
                     /\ known_cols' = st1.kc
                     /\ discard_if_empty' = st1.die
                     /\ UNCHANGED tIdx
                ELSE LET st2 == IF tag_info.has_base THEN Inherit(st1, tag_info) ELSE st1
                     IN  /\ heap' = st2.heap
                         /\ valid_column_names' = st2.vcn
                         /\ row_comment_chars' = st2.rcc
                         /\ known_cols' = st2.kc
                         /\ discard_if_empty' = st2.die
                         /\ tIdx' = tIdx + 1
                         /\ UNCHANGED <<pc, error>>
    /\ UNCHANGED <<mapping_file, mIdx, mappings, dropped, warning, table_info,
                   dd_table_order, all_attributes, param_mappings, times_xl_maps,
                   veda_tags_info, observed>>
    /\ UNCHANGED <<files, fileIdx, parserVars, parsed, all_parameters, all_sets,
                   headers_data, wIdx, emitted>>

(***************************************************************************)
(* Orchestrator: Config.__init__, and the consumers of the built Config    *)
(***************************************************************************)
\* (a slip: setdefault, so that a grammar rule keeps its name)
PutRuleKeepingFirst(name_to_map, m) ==
    IF DictHas(name_to_map, m.times_name) THEN name_to_map
    ELSE DictPut(name_to_map, m.times_name, m)

\* name_to_map[m.times_name] = m
PutRule(name_to_map, m) == DictPut(name_to_map, m.times_name, m)

RECURSIVE PutRules(_, _)
PutRules(name_to_map, ms) ==
    IF ms = <<>> THEN name_to_map ELSE PutRules(PutRule(name_to_map, Head(ms)), Tail(ms))

\* list(name_to_map.values()) after the two fills
MergedMaps(grammar, params) ==
    LET name_to_map == PutRules(PutRules(<<>>, grammar), params)
    IN  [i \in 1..Len(name_to_map) |-> name_to_map[i].v]

\* lines 215-218 (the attribute defaults and the region filter, which no table of
\* rules or tags depends on, are left out)
MergeMaps ==
    /\ pc = "merge"
    /\ error = NoError
    /\ times_xl_maps' = MergedMaps(times_xl_maps, param_mappings)
    /\ pc' = "done"
    /\ UNCHANGED <<mapping_file, mIdx, mappings, dropped, warning, table_info,
                   dd_table_order, all_attributes, param_mappings, tagVars, observed,
                   error>>
    /\ UNCHANGED <<files, fileIdx, parserVars, parsed, all_parameters, all_sets,
                   headers_data, wIdx, emitted>>

\* list(config.dd_table_order): the iterator yields what it has left, once
ReadOrder(c) ==
    /\ pc = "done"
    /\ error = NoError
    /\ Len(observed[c]) < MaxReads
    /\ observed' = [observed EXCEPT
                       ![c] = Append(@, [what |-> "dd_table_order",
                                         value |-> dd_table_order])]
    /\ dd_table_order' = <<>>
    /\ UNCHANGED <<mapping_file, mIdx, mappings, dropped, warning, table_info,
                   all_attributes, param_mappings, times_xl_maps, tagVars, pc, error>>
    /\ UNCHANGED <<files, fileIdx, parserVars, parsed, all_parameters, all_sets,
                   headers_data, wIdx, emitted>>

\* list(config.times_xl_maps)
ReadMaps(c) ==
    /\ pc = "done"
    /\ error = NoError
    /\ Len(observed[c]) < MaxReads
    /\ observed' = [observed EXCEPT
                       ![c] = Append(@, [what |-> "times_xl_maps",
                                         value |-> times_xl_maps])]
    /\ UNCHANGED <<mapping_file, mIdx, mappings, dropped, warning, table_info,
                   dd_table_order, all_attributes, param_mappings, times_xl_maps,
                   tagVars, pc, error>>
    /\ UNCHANGED <<files, fileIdx, parserVars, parsed, all_parameters, all_sets,
                   headers_data, wIdx, emitted>>

(***************************************************************************)
(* Specifications                                                          *)
(***************************************************************************)
vars == <<ddVars, cfgVars>>

DDRest ==
    /\ fileIdx = 0
    /\ data = <<>>
    /\ index = 0
    /\ param_name = <<>>
    /\ param_data = <<>>
    /\ name = <<>>
    /\ set_data = {}
    /\ param_value_dict = <<>>
    /\ set_data_dict = <<>>
    /\ parsed = <<>>
    /\ all_parameters = <<>>
    /\ all_sets = <<>>
    /\ headers_data = <<>>
    /\ wIdx = 0
    /\ emitted = <<>>
    /\ error = NoError

\* the driver before its first source, on the given sources
DDInit(sources) ==
    /\ files = sources
    /\ pc = "open"
    /\ DDRest

\* the driver's variables where the driver is not run
DDIdle ==
    /\ files = <<>>
    /\ DDRest

SeqsUpTo(S, n) == UNION {[1..m -> S] : m \in 0..n}

\* the configuration compiler before it starts, on the given inputs
CfgInit(lines, info, tags) ==
    /\ mapping_file = lines
    /\ mIdx = 0
    /\ mappings = <<>>
    /\ dropped = <<>>
    /\ warning = -1
    /\ table_info = info
    /\ dd_table_order = <<>>
    /\ all_attributes = {}
    /\ param_mappings = <<>>
    /\ times_xl_maps = <<>>
    /\ veda_tags_info = tags
    /\ tIdx = 0
    /\ heap = <<>>
    /\ valid_column_names = <<>>
    /\ row_comment_chars = <<>>
    /\ known_cols = <<>>
    /\ discard_if_empty = <<>>
    /\ observed = [c \in Consumers |-> <<>>]

\* the driver runs; no configuration is compiled
Init ==
    /\ \E sources \in SeqsUpTo(FilePool, MaxSources) : DDInit(sources)
    /\ CfgInit(<<>>, <<>>, <<>>)

Next ==
    \/ OpenFile
    \/ Scan
    \/ ParamSkip
    \/ ParamRow
    \/ SetSkip
    \/ SetRow
    \/ Merge
    \/ Headers
    \/ WriteParams
    \/ WriteSets

Spec == Init /\ [][Next]_vars

\* One source holding one PARAMETER block: every row of up to MaxRowLen characters
\* alone, and every sequence of up to MaxRows of the example rows
MaxRowLen == 4

MaxRows == 2

RowChars == {QT, ".", SP, "a"}

RowPool == UNION {[1..n -> RowChars] : n \in 1..MaxRowLen}

ExampleRows == {rowAB10, row20, row20sp, row3}

InitParam ==
    /\ \E rows \in {<<r>> : r \in RowPool} \cup SeqsUpTo(ExampleRows, MaxRows) :
          DDInit(<<PBlock(lnP, rows)>>)
    /\ CfgInit(<<>>, <<>>, <<>>)

NextParam ==
    \/ OpenFile
    \/ Scan
    \/ ParamSkip
    \/ ParamRow

SpecParam == InitParam /\ [][NextParam]_vars

\* One source holding one SET block: every row of up to MaxRowLen characters alone,
\* and every sequence of up to MaxRows of the example rows
ExampleSetRows == {setXYd, setXY, setXYq, set3}

InitSet ==
    /\ \E rows \in {<<r>> : r \in RowPool} \cup SeqsUpTo(ExampleSetRows, MaxRows) :
          DDInit(<<SBlock(rows)>>)
    /\ CfgInit(<<>>, <<>>, <<>>)

NextSet ==
    \/ OpenFile
    \/ Scan
    \/ SetSkip
    \/ SetRow

SpecSet == InitSet /\ [][NextSet]_vars

\* One source of up to MaxBlocks blocks, names recurring among them
MaxBlocks == 4

BlockPool ==
    { PBlock(lnP, <<rowAB10>>), PBlock(lnP, <<row20>>), PBlock(lnQ, <<row20>>),
      SBlock(<<setXYd>>), SBlock(<<setXY, setXYq>>), TBlock(<<setXY>>) }

RECURSIVE Flatten(_)
Flatten(blocks) == IF blocks = <<>> THEN <<>> ELSE Head(blocks) \o Flatten(Tail(blocks))

InitBlocks ==
    /\ \E blocks \in SeqsUpTo(BlockPool, MaxBlocks) : DDInit(<<Flatten(blocks)>>)
    /\ CfgInit(<<>>, <<>>, <<>>)

NextBlocks ==
    \/ OpenFile
    \/ Scan
    \/ ParamSkip
    \/ ParamRow
    \/ SetSkip
    \/ SetRow

SpecBlocks == InitBlocks /\ [][NextBlocks]_vars

\* One source of any lines: every sequence of up to MaxLines lines of the pool, parsed
\* and handed back to the driver.  The parser runs on its own, one step after the
\* other, so a step that can be taken is taken.
MaxLines == 4

LinePool == {lnPARAMETER, lnP, lnSETS, lnSLASH, lnBLANK, row20, set3}

InitLines ==
    /\ \E lines \in SeqsUpTo(LinePool, MaxLines) : DDInit(<<lines>>)
    /\ CfgInit(<<>>, <<>>, <<>>)

NextLines ==
    \/ OpenFile
    \/ Scan
    \/ ParamSkip
    \/ ParamRow
    \/ SetSkip
    \/ SetRow
    \/ Merge

SpecLines == InitLines /\ [][NextLines]_vars /\ WF_vars(NextLines)

\* _read_mappings alone, on every mapping file of up to MaxMapLines lines
InitMappings ==
    /\ DDIdle
    /\ pc = "read_mappings"
    /\ \E lines \in SeqsUpTo(MapLinePool, MaxMapLines) : CfgInit(lines, <<>>, <<>>)

NextMappings == ReadMappingLine

SpecMappings == InitMappings /\ [][NextMappings]_vars

\* _read_veda_tags_info alone, on every veda-tags file of up to MaxTags entries
InitTags ==
    /\ DDIdle
    /\ pc = "veda_tags"
    /\ \E tags \in SeqsUpTo(TagInfoPool, MaxTags) : CfgInit(<<>>, <<>>, tags)

NextTags == ReadTagInfo

SpecTags == InitTags /\ [][NextTags]_vars

\* Config.__init__ and the consumers of what it built
InitConfig ==
    /\ DDIdle
    /\ pc = "read_mappings"
    /\ \E lines \in MapFilePool, info \in SeqsUpTo(TableInfoPool, MaxInfo) :
          CfgInit(lines, info,
                  <<TagInfo(tagFI_T, TRUE, <<fldRegion>>, FALSE, <<>>),
                    TagInfo(tagUC_T, FALSE, <<>>, TRUE, tagFI_T)>>)

NextConfig ==
    \/ ReadMappingLine
    \/ ProcessTimesInfo
    \/ ReadTagInfo
    \/ MergeMaps
    \/ \E c \in Consumers : ReadOrder(c)
    \/ \E c \in Consumers : ReadMaps(c)

SpecConfig == InitConfig /\ [][NextConfig]_vars

\* Config.__init__ alone, up to the Config it returns (no consumer reads it)
NextCompile ==
    \/ ReadMappingLine
    \/ ProcessTimesInfo
    \/ ReadTagInfo
    \/ MergeMaps

SpecCompile == InitConfig /\ [][NextCompile]_vars

(***************************************************************************)
(* Claims about the driver and the writer (Spec)                           *)
(***************************************************************************)
NoDuplicates(xs) == \A i, j \in 1..Len(xs) : xs[i] = xs[j] => i = j

nameP == <<"P">>
nameS == <<"S">>

\* C1: after any sequence of sources has been parsed and merged, the tuple
\* collection held for each set name contains no tuple more than once.
C1_SetTuplesUnique ==
    \A i \in 1..Len(all_sets) : NoDuplicates(all_sets[i].v)

\* the records source i returned for parameter n ([] when it has none)
RecordsOf(i, n) ==
    IF DictHas(parsed[i].params, n) THEN DictGet(parsed[i].params, n) ELSE <<>>

RECURSIVE ConcatSources(_, _)
ConcatSources(k, n) ==
    IF k = 0 THEN <<>> ELSE ConcatSources(k - 1, n) \o RecordsOf(k, n)

\* C2: the merged records of each parameter name are the concatenation of that
\* name's records from each source, in source-processing order and in row order
\* within a source, duplicates kept; a name is merged exactly when some source has it.
C2_ParametersConcatenated ==
    /\ DictKeySet(all_parameters) =
          UNION {DictKeySet(parsed[i].params) : i \in 1..Len(parsed)}
    /\ NoDuplicates(DictKeys(all_parameters))
    /\ \A j \in 1..Len(all_parameters) :
          all_parameters[j].v = ConcatSources(Len(parsed), all_parameters[j].k)

\* two sources were merged that both hold records of P, the same record among them
C2_Witness ==
    /\ Len(parsed) = 2
    /\ RecordsOf(1, nameP) # <<>>
    /\ RecordsOf(2, nameP) # <<>>
    /\ RecordsOf(1, nameP)[1] = RecordsOf(2, nameP)[1]
    /\ Len(DictGet(all_parameters, nameP)) >= 3

\* the rows mapping the writer is working on, and where its tables start in `emitted`
WriterDict == IF pc = "write_params" THEN all_parameters ELSE all_sets

WriterBase == IF pc = "write_params" THEN 0 ELSE Len(all_parameters)

\* C9: for every table of the rows mapping whose header is known: if a row's length
\* differs from the header's, the write fails on the first such row, naming the row
\* length and the header length, and no table is emitted for it; otherwise exactly
\* one table is emitted for it, with the header as columns and rows of that length.
C9_WriterShapeCheck ==
    pc \in {"write_params", "write_sets"} =>
       /\ \A i \in 1..wIdx :
             LET t == WriterDict[i]
             IN  DictHas(headers_data, t.k) =>
                   /\ FirstMismatch(t.v, DictGet(headers_data, t.k)) = 0
                   /\ Len(emitted) >= WriterBase + i
                   /\ emitted[WriterBase + i].name = t.k
                   /\ emitted[WriterBase + i].columns = DictGet(headers_data, t.k)
                   /\ \A r \in 1..Len(emitted[WriterBase + i].rows) :
                         Len(emitted[WriterBase + i].rows[r]) =
                            Len(DictGet(headers_data, t.k))
       /\ Len(emitted) = WriterBase + wIdx
       /\ (error # NoError /\ DictHas(headers_data, WriterDict[wIdx + 1].k)) =>
             LET t == WriterDict[wIdx + 1]
                 m == FirstMismatch(t.v, DictGet(headers_data, t.k))
             IN  /\ m # 0
                 /\ error.what = "Mismatched number of columns"
                 /\ error.args = <<t.k, Len(t.v[m]), Len(DictGet(headers_data, t.k))>>

\* the tables in the order the driver writes them: the parameters, then the sets
WriteOrder == DictKeys(all_parameters) \o DictKeys(all_sets)

EmittedNames == [i \in 1..Len(emitted) |-> emitted[i].name]

\* the table the writer fails on has no header, or a row of another length than its
\* header, or no row at all
FailsToWrite(t) ==
    \/ ~DictHas(headers_data, t.k)
    \/ FirstMismatch(t.v, DictGet(headers_data, t.k)) # 0
    \/ t.v = <<>>

\* C14: the writer emits the tables one at a time in the order of the rows mapping,
\* with no rollback: when a table fails, the tables before it have been emitted and
\* stay emitted, it and the tables after it are not emitted; parameter tables are
\* written before set tables, so a failing parameter table means no set table is
\* written, and a parse error in a source means no table at all is written.
C14_WriterNoRollback ==
    /\ [][\E n \in 0..Len(emitted') : SubSeq(emitted', 1, n) = emitted]_vars
    /\ [](/\ pc \notin {"write_params", "write_sets", "done"} => emitted = <<>>
          /\ pc = "write_params" => Len(emitted) = wIdx
          /\ pc = "write_sets" => Len(emitted) = Len(all_parameters) + wIdx
          /\ pc = "done" => Len(emitted) = Len(WriteOrder)
          /\ EmittedNames = SubSeq(WriteOrder, 1, Len(emitted))
          /\ (error # NoError /\ pc \in {"write_params", "write_sets"}) =>
                FailsToWrite(WriterDict[wIdx + 1]))

\* a parameter table failed after another had been written: that one stays, and
\* the set tables of the run are not written
C14_Witness ==
    /\ pc = "write_params"
    /\ error # NoError
    /\ wIdx >= 1
    /\ Len(emitted) = wIdx
    /\ all_sets # <<>>

(***************************************************************************)
(* Claims about the rows of a PARAMETER block (SpecParam)                  *)
(***************************************************************************)
Positions(s, c) == {i \in 1..Len(s) : s[i] = c}

\* the j-th smallest element of a set of numbers
Nth(S, j) == CHOOSE x \in S : Cardinality({y \in S : y < x}) = j - 1

\* the j-th stretch of s between two occurrences of c (or an end of s)
Stretch(s, c, j) ==
    LET P == Positions(s, c)
        from == IF j = 1 THEN 1 ELSE Nth(P, j - 1) + 1
        to == IF j = Cardinality(P) + 1 THEN Len(s) ELSE Nth(P, j) - 1
    IN  SubSeq(s, from, to)

\* comp is seg without the single quotes around it
Unquoted(seg, comp) ==
    /\ \E a, b \in 0..Len(seg) :
          /\ a + Len(comp) + b = Len(seg)
          /\ \A i \in 1..Len(seg) :
                IF i <= a \/ i > a + Len(comp) THEN seg[i] = QT ELSE seg[i] = comp[i - a]
    /\ comp # <<>> => comp[1] # QT /\ comp[Len(comp)] # QT

\* rec is the record the claim gives for a row of one or two tokens
RecordOfRow(row, rec) ==
    LET tokens == Cardinality(Positions(row, SP)) + 1
        first == Stretch(row, SP, 1)
        n == Cardinality(Positions(first, ".")) + 1
    IN  IF tokens = 1 THEN rec = <<row>>
        ELSE /\ Len(rec) = n + 1
             /\ rec[n + 1] = Stretch(row, SP, 2)
             /\ \A j \in 1..n :
                   IF j \in 1..n /\ \E i \in 1..Len(Stretch(first, ".", j)) :
                                        Stretch(first, ".", j)[i] = SP
                   THEN rec[j] = Stretch(first, ".", j)
                   ELSE Unquoted(Stretch(first, ".", j), rec[j])

\* the rows of the block read so far start at line 3 of the source
BlockRow(k) == data[k + 2]

\* the line that closes the block: the first one that starts with "/" or is empty
BlockEnd ==
    CHOOSE k \in 3..Len(data) :
        EndsBlock(data[k]) /\ \A j \in 3..(k - 1) : ~EndsBlock(data[j])

RecordsAreRows(records) ==
    \A k \in 1..Len(records) :
        /\ Cardinality(Positions(BlockRow(k), SP)) + 1 \in {1, 2}
        /\ RecordOfRow(BlockRow(k), records[k])

exampleRecords == << <<<<"A">>, <<"B">>, <<"1", "0">>>>, <<<<"2", "0">>>> >>

\* C10: every row of a parameter block, split on single spaces, gives: one token ->
\* the record [token]; two tokens -> the first token's dot-separated components,
\* unquoted, then the second token; any other count -> an error naming the raw
\* line.  The block's records are its rows' records in row order, duplicates kept.
C10_ParamRows ==
    /\ pc = "p_rows" =>
          /\ RecordsAreRows(param_data)
          /\ error = NoError => Len(param_data) = index - 2
          /\ error # NoError =>
                /\ Len(param_data) = index - 2
                /\ Cardinality(Positions(Line(index), SP)) + 1 \notin {1, 2}
                /\ error.type = "ValueError"
                /\ error.args = <<Line(index)>>
          /\ (error = NoError /\ index < Len(data) /\ ~EndsBlock(Line(index))
                /\ Cardinality(Positions(Line(index), SP)) + 1 \in {1, 2})
                => ENABLED ParamRow
    /\ DictHas(param_value_dict, param_name) =>
          /\ DictKeys(param_value_dict) = <<nameP>>
          /\ RecordsAreRows(DictGet(param_value_dict, nameP))
          /\ Len(DictGet(param_value_dict, nameP)) = BlockEnd - 3
          /\ SubSeq(data, 3, BlockEnd - 1) = <<rowAB10, row20>>
                => DictGet(param_value_dict, nameP) = exampleRecords

\* the block of the rows 'A'.'B' 10 and 20 was parsed
C10_Witness ==
    /\ pc = "merge"
    /\ Len(data) >= 4
    /\ SubSeq(data, 3, 4) = <<rowAB10, row20>>
    /\ DictHas(param_value_dict, nameP)
    /\ DictGet(param_value_dict, nameP) = exampleRecords

(***************************************************************************)
(* Claims about the rows of a SET block (SpecSet)                          *)
(***************************************************************************)
\* where a logical word of the row ends: at a space that a quote follows, which is
\* where a piece between two quotes ends in a space
WordBreaks(row) == {i \in 1..(Len(row) - 1) : row[i] = SP /\ row[i + 1] = QT}

NoQuotes(s) == SelectSeq(s, LAMBDA c : c # QT)

\* the text up to position i: its pieces between quotes, the last one without the
\* spaces around it
WordBefore(row, i) ==
    LET Q == {q \in 1..i : row[q] = QT}
        last == IF Q = {} THEN 0 ELSE CHOOSE q \in Q : \A r \in Q : r <= q
    IN  NoQuotes(SubSeq(row, 1, last)) \o Strip(SubSeq(row, last + 1, i))

DotParts(w) == [j \in 1..(Cardinality(Positions(w, ".")) + 1) |-> Stretch(w, ".", j)]

\* the tuple the claim gives for a row of one or two logical words
TupleOfRow(row) ==
    IF WordBreaks(row) = {} THEN DotParts(NoQuotes(row))
    ELSE LET i == CHOOSE b \in WordBreaks(row) : TRUE
         IN  DotParts(WordBefore(row, i)) \o <<NoQuotes(SubSeq(row, i + 1, Len(row)))>>

TuplesOfRows(n) == {TupleOfRow(BlockRow(k)) : k \in 1..n}

exampleTuple == << <<"X">>, <<"Y">>, <<"d", " ", "t">> >>

\* C11: every row of a set block is reassembled into logical words: a one-word row
\* adds the tuple of the word's dot-separated key components, a two-word row adds
\* those components followed by the second word; a row of more than two logical
\* words aborts parsing with an error naming the raw line and the set block.
C11_SetRows ==
    /\ pc = "s_rows" =>
          /\ \A k \in 1..(index - 2) : Cardinality(WordBreaks(BlockRow(k))) <= 1
          /\ set_data = TuplesOfRows(index - 2)
          /\ error # NoError =>
                /\ Cardinality(WordBreaks(Line(index))) >= 2
                /\ error.type = "ValueError"
                /\ error.what = "Unexpected number of spaces in set value setting"
                /\ error.args = <<Line(index)>>
    /\ DictHas(set_data_dict, nameS) =>
          /\ DictKeys(set_data_dict) = <<nameS>>
          /\ DictGet(set_data_dict, nameS) = TuplesOfRows(BlockEnd - 3)
          /\ SubSeq(data, 3, BlockEnd - 1) = <<setXYd>>
                => DictGet(set_data_dict, nameS) = {exampleTuple}

\* the block of the one row 'X'.'Y' 'd t' was parsed
C11_Witness ==
    /\ pc = "merge"
    /\ Len(data) = 4
    /\ data[3] = setXYd
    /\ DictHas(set_data_dict, nameS)
    /\ DictGet(set_data_dict, nameS) = {exampleTuple}

(***************************************************************************)
(* Claims about blocks of one name in one source (SpecBlocks)              *)
(***************************************************************************)
nameQ == <<"Q">>
nameT == <<"T">>

\* the lines at which a PARAMETER block of that name opens, and a SET block
ParamOpens(n) ==
    {i \in 1..(Len(data) - 1) : data[i] = kPARAMETER /\ data[i + 1] = n \o kDECOR}

SetOpens(n) ==
    {i \in 1..(Len(data) - 1) : data[i] = kSET \o <<SP>> \o n /\ data[i + 1] = kSLASH}

\* the rows of the block that opens at line i: from line i + 2 to the closing line
RowsFrom(i) ==
    LET end == CHOOSE k \in (i + 2)..Len(data) :
                  EndsBlock(data[k]) /\ \A j \in (i + 2)..(k - 1) : ~EndsBlock(data[j])
    IN  SubSeq(data, i + 2, end - 1)

LastOpen(S) == CHOOSE i \in S : \A j \in S : j <= i

\* C12: in one source, a later SET block of a name already seen adds its tuples to
\* those collected for the name, whereas a later PARAMETER block of a name already
\* seen replaces the earlier records: only the last block's rows are returned.
C12_SameNameBlocks ==
    pc = "merge" =>
       /\ \A n \in {nameP, nameQ} :
             IF ParamOpens(n) = {} THEN ~DictHas(param_value_dict, n)
             ELSE /\ DictHas(param_value_dict, n)
                  /\ DictGet(param_value_dict, n) =
                        MapSeq(ParamRecord, RowsFrom(LastOpen(ParamOpens(n))))
       /\ \A n \in {nameS, nameT} :
             IF SetOpens(n) = {} THEN ~DictHas(set_data_dict, n)
             ELSE /\ DictHas(set_data_dict, n)
                  /\ DictGet(set_data_dict, n) =
                        UNION {{SetTuple(r) : r \in Range(RowsFrom(i))} : i \in SetOpens(n)}

\* a source was parsed in which P opens two blocks of different rows and S opens
\* two blocks of different rows
C12_Witness ==
    /\ pc = "merge"
    /\ Cardinality(ParamOpens(nameP)) = 2
    /\ Cardinality({RowsFrom(i) : i \in ParamOpens(nameP)}) = 2
    /\ Cardinality(SetOpens(nameS)) = 2
    /\ Cardinality({RowsFrom(i) : i \in SetOpens(nameS)}) = 2
    /\ Cardinality(DictGet(set_data_dict, nameS)) = 2
    /\ Len(DictGet(param_value_dict, nameP)) = 1

(***************************************************************************)
(* Claims about the end of parsing (SpecLines)                             *)
(***************************************************************************)
\* the source as the parser holds it
Lines == MapSeq(RStrip, files[1])

Blank(line) == \A i \in 1..Len(line) : line[i] = SP

Closes(line) == line = <<>> \/ line[1] = "/"

\* reading the lines from the i-th on: every block that opens is closed before the
\* lines end.  `at` says where line i stands: outside a block, among the blank lines
\* after a marker, or among the rows of a block
RECURSIVE ClosedFrom(_, _)
ClosedFrom(i, at) ==
    IF i > Len(Lines) THEN at = "outside"
    ELSE LET line == Lines[i]
         IN  CASE at = "outside" ->
                    IF StartsWith(line, kPARAMETER) \/ StartsWith(line, kSET)
                    THEN ClosedFrom(i + 1, "marker") ELSE ClosedFrom(i + 1, "outside")
               [] at = "marker" ->
                    IF Blank(line) THEN ClosedFrom(i + 1, "marker")
                    ELSE ClosedFrom(i + 1, "rows")
               [] at = "rows" ->
                    IF Closes(line) THEN ClosedFrom(i + 1, "outside")
                    ELSE ClosedFrom(i + 1, "rows")

BlocksClosed == ClosedFrom(1, "outside")

\* the parser is through with the source: it raised, or it returned and the driver
\* has merged what it returned
Ended == error # NoError \/ pc = "headers"

ReturnedNormally ==
    /\ error = NoError
    /\ parsed = <<[params |-> param_value_dict, sets |-> set_data_dict]>>

ReturnedNothing ==
    /\ error # NoError
    /\ parsed = <<>>
    /\ all_parameters = <<>>
    /\ all_sets = <<>>

CursorForward == [][pc # "open" => index' >= index]_vars

\* C13 (as claimed): parsing any finite sequence of lines ends, the cursor only moving
\* forward; it returns its two collections whenever every opened block is closed
\* before the end of input, and aborts, returning no records, when the input ends
\* inside an open block.
C13_ParsingEnds ==
    /\ <>Ended
    /\ CursorForward
    /\ [](Ended => IF BlocksClosed THEN ReturnedNormally ELSE ReturnedNothing)

\* C13 (amended): parsing any finite sequence of lines ends, the cursor only moving
\* forward.  When the input ends inside an open block, parsing aborts and returns no
\* records.  When every opened block is closed, the parser returns its two
\* collections unless a line is malformed: then it aborts on that line, with a
\* ValueError or an AssertionError, and returns no records.
C13_ParsingEndsOrAborts ==
    /\ <>Ended
    /\ CursorForward
    /\ [](Ended =>
            /\ ReturnedNormally \/ ReturnedNothing
            /\ ~BlocksClosed => ReturnedNothing
            /\ ReturnedNormally => index = Len(data)
            /\ (BlocksClosed /\ error # NoError) =>
                  /\ index < Len(data)
                  /\ error.type \in {"ValueError", "AssertionError"}
            /\ error.type = "IndexError" => ~BlocksClosed /\ index = Len(data))

\* the input ended inside an open block after records had been read: the parser
\* raised and the driver got nothing
C13_Witness ==
    /\ error.type = "IndexError"
    /\ pc = "p_rows"
    /\ param_data # <<>>
    /\ index = Len(data)
    /\ parsed = <<>>

(***************************************************************************)
(* Claims about the tag schemas (SpecTags)                                 *)
(***************************************************************************)
\* the table a dict of references gives a tag (nothing when it has none)
TableOf(refs, objects, t, none) ==
    IF DictHas(refs, t) THEN objects[DictGet(refs, t)] ELSE none

\* an entry is being compiled in this step
CompilesEntry == pc = "veda_tags" /\ error = NoError /\ tIdx' = tIdx + 1

\* C3: a tag that inherits from a base tag gets an alias table, comment-marker table
\* and known-column set equal to the base's at compile time, and they are independent
\* copies: a later change to the tables of one tag leaves the tables of every other
\* tag as they were.
C3_InheritedTablesIndependent ==
    [][CompilesEntry =>
          \E tag \in {ToTag(veda_tags_info[tIdx + 1].tag_name)},
             base \in {ToTag(veda_tags_info[tIdx + 1].base_tag)} :
             /\ veda_tags_info[tIdx + 1].has_base =>
                   /\ DictHas(valid_column_names, base) =>
                         TableOf(valid_column_names', heap', tag, <<>>)
                            = TableOf(valid_column_names, heap, base, <<>>)
                   /\ DictHas(row_comment_chars, base) =>
                         TableOf(row_comment_chars', heap', tag, <<>>)
                            = TableOf(row_comment_chars, heap, base, <<>>)
                   /\ DictHas(known_cols, base) =>
                         TableOf(known_cols', heap', tag, {})
                            = TableOf(known_cols, heap, base, {})
             /\ \A t \in TagCatalog \ {tag} :
                   /\ TableOf(valid_column_names', heap', t, <<>>)
                         = TableOf(valid_column_names, heap, t, <<>>)
                   /\ TableOf(row_comment_chars', heap', t, <<>>)
                         = TableOf(row_comment_chars, heap, t, <<>>)
                   /\ TableOf(known_cols', heap', t, {})
                         = TableOf(known_cols, heap, t, {})]_vars

(***************************************************************************)
(* Claims about the mapping grammar (SpecMappings)                         *)
(***************************************************************************)
Count(s, c) == Cardinality(Positions(s, c))

\* the line has the shape NAME[...] = TAG(...)
Shaped(line) ==
    /\ Count(line, "[") = 1 /\ Count(line, "]") = 1
    /\ Count(line, "(") = 1 /\ Count(line, ")") = 1
    /\ Count(line, SP) = 2 /\ Count(line, "=") = 1
    /\ \E b \in Positions(line, "]") :
          /\ b + 3 < Len(line)
          /\ SubSeq(line, b + 1, b + 3) = kEQ
          /\ \A o \in Positions(line, "[") : 1 < o /\ o + 1 < b
          /\ \A o \in Positions(line, "(") : b + 4 < o /\ o + 1 < Len(line)
    /\ line[Len(line)] = ")"

\* what stands between the one `open` and the one `close` of the line
Between(line, open, close) ==
    SubSeq(line, Nth(Positions(line, open), 1) + 1, Nth(Positions(line, close), 1) - 1)

OutCount(line) == Count(Between(line, "[", "]"), ",") + 1

InTokens(line) ==
    LET inner == Between(line, "(", ")")
    IN  {Stretch(inner, ",", j) : j \in 1..(Count(inner, ",") + 1)}

\* the input columns that remain when the filter tokens are removed
InCount(line) ==
    LET inner == Between(line, "(", ")")
    IN  Cardinality({j \in 1..(Count(inner, ",") + 1) : Count(Stretch(inner, ",", j), ":") = 0})

TagOf(line) == Between(line, "=", "(")

NameOf(line) == SubSeq(line, 1, Nth(Positions(line, "["), 1) - 1)

Overlong(line) == Shaped(line) /\ OutCount(line) > InCount(line)

TodoTag(line) == Shaped(line) /\ TagOf(line) = <<SP>> \o kTODOTAG

TodoToken(line) ==
    Shaped(line) /\ \E t \in InTokens(line) : Len(t) >= 4 /\ SubSeq(t, 1, 4) = kTODO

\* the i-th line readline() returned
LineRead(i) == RStrip(mapping_file[i])

Returned == pc = "times_info"

RuleIsWhole(rule) ==
    /\ Len(rule.times_cols) <= Len(rule.xl_cols)
    /\ DictKeySet(rule.col_map) = Range(rule.times_cols)
    /\ \E i \in 1..mIdx :
          /\ Shaped(LineRead(i))
          /\ NameOf(LineRead(i)) = rule.times_name
          /\ OutCount(LineRead(i)) = Len(rule.times_cols)
          /\ InCount(LineRead(i)) = Len(rule.xl_cols)

Placeholder(line) == TodoTag(line) \/ TodoToken(line)

Placeholders(n) == {i \in 1..n : Placeholder(LineRead(i))}

\* C6: a line whose input tag is ~TODO, or one of whose input column tokens begins
\* with TODO, is left out of the compiled rules and counted in the dropped lines the
\* warning reports; it never makes loading fail, and the other lines are compiled.
C6_PlaceholderLinesDropped ==
    /\ error = NoError =>
          /\ Len(dropped) = Cardinality(Placeholders(mIdx))
          /\ Len(mappings) = mIdx - Cardinality(Placeholders(mIdx))
    /\ error # NoError => mIdx \notin Placeholders(mIdx)
    /\ Returned =>
          warning = IF Placeholders(mIdx) = {} THEN -1 ELSE Cardinality(Placeholders(mIdx))

(***************************************************************************)
(* Claims about Config.__init__ (SpecCompile) and its consumers (SpecConfig) *)
(***************************************************************************)
\* C5: every rule of the merged rule list, from the grammar or from the attribute
\* metadata, has no more output columns than input columns.
C5_RulesFit ==
    pc = "done" =>
       \A j \in 1..Len(times_xl_maps) :
          Len(times_xl_maps[j].times_cols) <= Len(times_xl_maps[j].xl_cols)

RuleNames(rules) == {rules[i].times_name : i \in 1..Len(rules)}

\* where a name is first seen in the grammar rules followed by the attribute rules
FirstSeen(n) ==
    LET all == mappings \o param_mappings
    IN  CHOOSE i \in 1..Len(all) :
           all[i].times_name = n /\ \A j \in 1..(i - 1) : all[j].times_name # n

\* the last rule of that name in a list
LastOf(rules, n) ==
    rules[CHOOSE i \in 1..Len(rules) :
             rules[i].times_name = n /\ \A j \in (i + 1)..Len(rules) : rules[j].times_name # n]

\* C7: the merged rule list has exactly one rule per output-table name of either rule
\* set; for a name in both (or only in the attribute rules) it is the attribute rule;
\* the names stand in the order in which they are first seen, grammar rules first.
C7_MergedRules ==
    pc = "done" =>
       /\ RuleNames(times_xl_maps) = RuleNames(mappings) \cup RuleNames(param_mappings)
       /\ \A i, j \in 1..Len(times_xl_maps) :
             /\ times_xl_maps[i].times_name = times_xl_maps[j].times_name => i = j
             /\ i < j => FirstSeen(times_xl_maps[i].times_name)
                            < FirstSeen(times_xl_maps[j].times_name)
       /\ \A i \in 1..Len(times_xl_maps) :
             LET n == times_xl_maps[i].times_name
             IN  IF n \in RuleNames(param_mappings)
                 THEN times_xl_maps[i] = LastOf(param_mappings, n)
                 ELSE times_xl_maps[i] = LastOf(mappings, n)

\* a grammar rule was overridden in place, ahead of a grammar-only name and of a
\* name only the attribute rules have
C7_Witness ==
    /\ pc = "done"
    /\ Len(times_xl_maps) = 3
    /\ times_xl_maps[1].times_name \in RuleNames(mappings) \cap RuleNames(param_mappings)
    /\ times_xl_maps[1] # mappings[1]
    /\ times_xl_maps[2].times_name \notin RuleNames(param_mappings)
    /\ times_xl_maps[3].times_name \notin RuleNames(mappings)

\* C8: reading the built configuration never changes it: every consumer reading a
\* component observes the same contents as the first reader of that component.
C8_ReadersAgree ==
    \A c1, c2 \in Consumers :
       \A i \in 1..Len(observed[c1]), j \in 1..Len(observed[c2]) :
          observed[c1][i].what = observed[c2][j].what
             => observed[c1][i].value = observed[c2][j].value

====
